---- MODULE Spec2Model ----
(***************************************************************************)
(* Model of the mira-knowledge ingestion pipeline: the crawlers' page      *)
(* export (crawl_docs.py, crawl_blog.py) and the ingestion script          *)
(* (ingest.py) that parses the exported JSON files, chunks every page,     *)
(* overwrites the "molrag" table, upserts the knowledge_version entry of   *)
(* the "config" table, adds the rows and issues the two index builds.      *)
(*                                                                         *)
(* A markdown text is a sequence of lines; a chunk's page_content is the   *)
(* sequence of the lines it holds.  The separators the splitters insert    *)
(* ("\n", "  \n") are counted as one character each.                       *)
(***************************************************************************)
EXTENDS Integers, Sequences, FiniteSets, TLC

----------------------------------------------------------------------------
(* Bounds of the model *)

MaxRecords == 2   \* records over all crawl results / data files
MaxRuns == 2      \* ingestion runs started one after the other
MaxDay == 2       \* calendar days the runs may fall on
MaxPolls == 3     \* list_indices calls that are counted (later ones are not)

----------------------------------------------------------------------------
(* Lines of markdown text *)

\* number of leading '#' of a line that is followed by a space, else 0
HashCount(line) ==
    CASE line = "# A" -> 1
      [] line = "## B" -> 2
      [] line = "# C" -> 1
      [] line = "##### E" -> 5
      [] OTHER -> 0

\* the text after the '#' prefix of a heading line
HeadingText(line) ==
    CASE line = "# A" -> "A"
      [] line = "## B" -> "B"
      [] line = "# C" -> "C"
      [] line = "##### E" -> "E"
      [] OTHER -> ""

\* len(line)
LineLen(line) ==
    CASE line = "# A" -> 3
      [] line = "## B" -> 4
      [] line = "# C" -> 3
      [] line = "##### E" -> 7
      [] line = "" -> 0
      [] line \in {"foo", "bar", "baz"} -> 3
      [] OTHER -> 1500

\* the markdown texts of the model
DocDeep == <<"# A", "", "foo", "", "##### E", "bar", "", "## B", "", "baz">>
DocBig == <<"# C", "BIG1", "BIG2">>

Text(lines) == [isText |-> TRUE, lines |-> lines]
\* JSON null (Python None): a markdown value that is not text
Null == [isText |-> FALSE, lines |-> <<>>]

----------------------------------------------------------------------------
(* MarkdownHeaderTextSplitter(headers_to_split_on, strip_headers=False) *)

headers_to_split_on == [n \in 1..6 |-> n]

HeaderName(level) ==
    CASE level = 1 -> "header_1"
      [] level = 2 -> "header_2"
      [] level = 3 -> "header_3"
      [] level = 4 -> "header_4"
      [] level = 5 -> "header_5"
      [] OTHER -> "header_6"

\* the level of the heading a line opens, 0 for a line that opens none
HeaderLevel(line) ==
    IF \E n \in DOMAIN headers_to_split_on : headers_to_split_on[n] = HashCount(line)
    THEN HashCount(line) ELSE 0

\* the function f without the keys of S
Without(f, S) == [k \in (DOMAIN f) \ S |-> f[k]]

\* the function f with key k set to v
With(f, k, v) == [x \in (DOMAIN f) \cup {k} |-> IF x = k THEN v ELSE f[x]]

EmptyMeta == [k \in {} |-> ""]

RECURSIVE SumLen(_)
SumLen(content) ==
    IF content = <<>> THEN 0
    ELSE LineLen(Head(content)) + (IF Len(content) > 1 THEN 1 ELSE 0) + SumLen(Tail(content))

\* one iteration of the loop over the lines of split_text; st holds
\* lines_with_metadata (out), current_content, current_metadata,
\* initial_metadata and the levels of header_stack
SplitLine(st, line) ==
    LET level == HeaderLevel(line) IN
    IF level > 0
    THEN LET popped == {HeaderName(l) : l \in {x \in st.stack : x >= level}}
             init == With(Without(st.initial, popped), HeaderName(level), HeadingText(line))
             out == IF st.content # <<>>
                    THEN Append(st.out, [content |-> st.content, metadata |-> st.current])
                    ELSE st.out
         IN [out |-> out, content |-> <<line>>, current |-> init, initial |-> init,
             stack |-> {x \in st.stack : x < level} \cup {level}]
    ELSE IF line # ""
    THEN [st EXCEPT !.content = Append(st.content, line), !.current = st.initial]
    ELSE IF st.content # <<>>
    THEN [st EXCEPT !.out = Append(st.out, [content |-> st.content, metadata |-> st.current]),
                    !.content = <<>>, !.current = st.initial]
    ELSE [st EXCEPT !.current = st.initial]

RECURSIVE SplitLines(_, _)
SplitLines(st, lines) ==
    IF lines = <<>>
    THEN IF st.content # <<>>
         THEN Append(st.out, [content |-> st.content, metadata |-> st.current])
         ELSE st.out
    ELSE SplitLines(SplitLine(st, Head(lines)), Tail(lines))

\* aggregate_lines_to_chunks: merge neighbours with common metadata, and a
\* chunk ending in a heading line with the deeper section that follows it
RECURSIVE Aggregate(_, _)
Aggregate(acc, lines) ==
    IF lines = <<>> THEN acc
    ELSE LET line == Head(lines)
             n == Len(acc)
         IN IF n > 0 /\ acc[n].metadata = line.metadata
            THEN Aggregate([acc EXCEPT ![n].content = acc[n].content \o line.content],
                           Tail(lines))
            ELSE IF /\ n > 0
                    /\ Cardinality(DOMAIN acc[n].metadata) < Cardinality(DOMAIN line.metadata)
                    /\ HashCount(acc[n].content[Len(acc[n].content)]) > 0
            THEN Aggregate([acc EXCEPT ![n] = [content |-> acc[n].content \o line.content,
                                               metadata |-> line.metadata]],
                           Tail(lines))
            ELSE Aggregate(Append(acc, line), Tail(lines))

\* markdown_splitter.split_text(text)
MarkdownSplit(lines) ==
    Aggregate(<<>>, SplitLines([out |-> <<>>, content |-> <<>>, current |-> EmptyMeta,
                                initial |-> EmptyMeta, stack |-> {}], lines))

----------------------------------------------------------------------------
(* RecursiveCharacterTextSplitter(chunk_size, chunk_overlap) *)

chunk_size == 2000
chunk_overlap == 200

\* the inner while loop of _merge_splits: drop lines from the front of
\* current_doc until the overlap budget and the next piece fit
RECURSIVE DropFront(_, _)
DropFront(doc, pieceLen) ==
    IF doc # <<>> /\ (SumLen(doc) > chunk_overlap
                      \/ SumLen(doc) + pieceLen + 1 > chunk_size)
    THEN DropFront(Tail(doc), pieceLen)
    ELSE doc

\* _merge_splits over the lines of one section
RECURSIVE MergeSplits(_, _, _)
MergeSplits(docs, current_doc, splits) ==
    IF splits = <<>>
    THEN IF current_doc # <<>> THEN Append(docs, current_doc) ELSE docs
    ELSE LET d == Head(splits)
             sep == IF current_doc # <<>> THEN 1 ELSE 0
         IN IF SumLen(current_doc) + LineLen(d) + sep > chunk_size /\ current_doc # <<>>
            THEN MergeSplits(Append(docs, current_doc),
                             Append(DropFront(current_doc, LineLen(d)), d), Tail(splits))
            ELSE MergeSplits(docs, Append(current_doc, d), Tail(splits))

\* text_splitter.split_documents(md_header_splits)
RECURSIVE SplitDocuments(_)
SplitDocuments(sections) ==
    IF sections = <<>> THEN <<>>
    ELSE LET s == Head(sections)
             texts == MergeSplits(<<>>, <<>>, s.content)
         IN [i \in 1..Len(texts) |-> [page_content |-> texts[i], metadata |-> s.metadata]]
            \o SplitDocuments(Tail(sections))

----------------------------------------------------------------------------
(* Crawl results and the exported JSON page records *)

Urls == {"u1", "u2"}
Markdowns == {Null, Text(DocDeep), Text(DocBig)}

\* the title the site serves in the head of the page at url
PageTitle(url) == IF url = "u1" THEN "Guide" ELSE "api"

\* a result of crawl_docs.py's crawler.arun
DocsResults ==
    {[url |-> u, title |-> PageTitle(u), markdown |-> m] : u \in Urls, m \in Markdowns}

\* a result of crawl_blog.py's crawler.arun_many; a failed fetch has no markdown
BlogResults ==
    {[url |-> u, title |-> PageTitle(u), markdown |-> m, success |-> TRUE] :
        u \in Urls, m \in Markdowns}
    \cup {[url |-> "u1", title |-> "", markdown |-> Null, success |-> FALSE]}

\* the items of data/desci_codes.json, which no crawler of the repository
\* writes: page records, and objects that lack keys
DesciItems ==
    {[url |-> u, title |-> PageTitle(u), markdown |-> m, source |-> "DeSci.Codes"] :
        u \in Urls, m \in Markdowns}
    \cup {[url |-> "u1"], [source |-> "DeSci.Codes"]}

RECURSIVE SeqsUpTo(_, _)
SeqsUpTo(S, n) ==
    IF n = 0 THEN {<<>>}
    ELSE SeqsUpTo(S, n - 1)
         \cup {Append(q, x) : q \in {r \in SeqsUpTo(S, n - 1) : Len(r) = n - 1}, x \in S}

\* hash(result.markdown); collisions of Python's 64-bit hash are left out
Hash(markdown) == markdown

\* extract_title_from_markdown: the text of the first "# " heading, else ""
RECURSIVE FirstH1(_)
FirstH1(lines) ==
    IF lines = <<>> THEN ""
    ELSE IF HashCount(Head(lines)) = 1 THEN HeadingText(Head(lines))
    ELSE FirstH1(Tail(lines))

extract_title_from_markdown(markdown) ==
    IF ~markdown.isText THEN "" ELSE FirstH1(markdown.lines)

\* rank of title.lower() in string order
LowerRank(title) ==
    CASE title = "" -> 0
      [] title = "A" -> 1
      [] title = "api" -> 2
      [] title = "C" -> 3
      [] OTHER -> 4

\* insert page into the title-sorted list, after the pages of equal key
RECURSIVE InsertByTitle(_, _)
InsertByTitle(sorted, page) ==
    IF sorted = <<>> THEN <<page>>
    ELSE IF LowerRank(page.title) < LowerRank(Head(sorted).title)
    THEN <<page>> \o sorted
    ELSE <<Head(sorted)>> \o InsertByTitle(Tail(sorted), page)

\* pages_data.sort(key=lambda x: x.get("title", "").lower()), a stable sort
RECURSIVE SortByTitle(_)
SortByTitle(pages) ==
    IF pages = <<>> THEN <<>>
    ELSE InsertByTitle(SortByTitle(SubSeq(pages, 1, Len(pages) - 1)), pages[Len(pages)])

\* the loop of crawl_docs.py over results: skip seen content, export the rest
RECURSIVE DocsPages(_, _)
DocsPages(results, seen_content) ==
    IF results = <<>> THEN <<>>
    ELSE LET result == Head(results)
             extracted_title == extract_title_from_markdown(result.markdown)
         IN IF Hash(result.markdown) \in seen_content
            THEN DocsPages(Tail(results), seen_content)
            ELSE <<[title |-> IF extracted_title # "" THEN extracted_title ELSE result.title,
                    url |-> result.url,
                    markdown |-> result.markdown,
                    source |-> "Molecule Docs"]>>
                 \o DocsPages(Tail(results), seen_content \cup {Hash(result.markdown)})

\* the loop of crawl_blog.py over results: skip failed fetches, skip seen
\* content when the markdown is non-empty, export the rest
RECURSIVE BlogPages(_, _)
BlogPages(results, seen_content) ==
    IF results = <<>> THEN <<>>
    ELSE LET result == Head(results)
             truthy == result.markdown.isText /\ result.markdown.lines # <<>>
             page == [title |-> result.title,
                      url |-> result.url,
                      markdown |-> result.markdown,
                      source |-> "Molecule Blog"]
         IN IF ~result.success
            THEN BlogPages(Tail(results), seen_content)
            ELSE IF truthy /\ Hash(result.markdown) \in seen_content
            THEN BlogPages(Tail(results), seen_content)
            ELSE <<page>>
                 \o BlogPages(Tail(results),
                              IF truthy THEN seen_content \cup {Hash(result.markdown)}
                              ELSE seen_content)

----------------------------------------------------------------------------
(* ingest.py: parsing and chunking *)

\* the "source" labels of the files list, in the order the files are read
FileSource(i) ==
    CASE i = 1 -> "Molecule Documentation"
      [] i = 2 -> "Molecule Blog"
      [] OTHER -> "DeSci.Codes"

\* item.get(key, default)
Get(item, key, default) == IF key \in DOMAIN item THEN item[key] ELSE default

\* ParseItem taking the label from the record's own "source" field
ParseItemOwnSource(item, i) ==
    [title |-> Get(item, "title", ""),
     content |-> Get(item, "markdown", Text(<<>>)),
     metadata |-> [url |-> Get(item, "url", "N/A"),
                   source |-> Get(item, "source", FileSource(i))]]

\* the body of the loop over the items of one file
ParseItem(item, i) ==
    [title |-> Get(item, "title", ""),
     content |-> Get(item, "markdown", Text(<<>>)),
     metadata |-> [url |-> Get(item, "url", "N/A"), source |-> FileSource(i)]]

RECURSIVE ParseItems(_, _)
ParseItems(data, i) ==
    IF data = <<>> THEN <<>>
    ELSE <<ParseItem(Head(data), i)>> \o ParseItems(Tail(data), i)

\* the loop over files that fills parsed_data
ParseFiles(fs) == ParseItems(fs[1], 1) \o ParseItems(fs[2], 2) \o ParseItems(fs[3], 3)

\* the chunks of one row of the data frame, with the page's provenance
ChunkRow(row) ==
    LET splits == SplitDocuments(MarkdownSplit(row.content.lines))
    IN [k \in 1..Len(splits) |->
          [page_content |-> splits[k].page_content,
           metadata |-> With(With(With(splits[k].metadata,
                                       "page_title", row.title),
                                  "url", row.metadata.url),
                             "source", row.metadata.source)]]

RECURSIVE ChunkRows(_)
ChunkRows(rows) ==
    IF rows = <<>> THEN <<>> ELSE ChunkRow(Head(rows)) \o ChunkRows(Tail(rows))

\* split_text raises on a content that is not a string
Splittable(rows) == \A k \in 1..Len(rows) : rows[k].content.isText

\* None in a stored row
None == "None"

\* one element of processed_chunks
ProcessChunk(chunk) ==
    [text |-> chunk.page_content,
     metadata |-> [header_1 |-> Get(chunk.metadata, "header_1", None),
                   header_2 |-> Get(chunk.metadata, "header_2", None),
                   header_3 |-> Get(chunk.metadata, "header_3", None),
                   header_4 |-> Get(chunk.metadata, "header_4", None),
                   page_title |-> chunk.metadata["page_title"],
                   source |-> chunk.metadata["source"],
                   url |-> chunk.metadata["url"]]]

ProcessChunks(cs) == [k \in 1..Len(cs) |-> ProcessChunk(cs[k])]

----------------------------------------------------------------------------
(* The state: crawl results, data files, the store, and the run's variables *)

VARIABLES
    pc,                \* the statement the pipeline is at
    docs_results,      \* what crawl_docs.py's crawler returns
    blog_results,      \* what crawl_blog.py's crawler returns
    files,             \* the items of the three JSON files under data/
    run,               \* number of the ingestion run
    today,             \* the day datetime.now() falls on
    parsed_data,       \* ingest.py's parsed_data (the data frame's rows)
    chunks,            \* ingest.py's chunks
    processed_chunks,  \* ingest.py's processed_chunks
    config_data,       \* ingest.py's config_data
    molrag,            \* the "molrag" table of the store
    config,            \* the "config" table of the store
    failed_at,         \* the statement whose exception ended the run
    at_start,          \* history: the store's contents as the run found them
    knowledge_version_value,  \* the value the run reads back and prints
    wpc,               \* the statement a call of wait_for_index is at
    index_name,        \* wait_for_index's index_name
    listed,            \* what table.list_indices() answers at present
    indices,           \* wait_for_index's indices (the last answer)
    polls              \* number of list_indices calls, up to MaxPolls

pipeline == <<pc, docs_results, blog_results, files, run, today, parsed_data, chunks,
              processed_chunks, config_data, molrag, config, failed_at,
              at_start, knowledge_version_value>>

waiting == <<wpc, index_name, listed, indices, polls>>

vars == <<pipeline, waiting>>

inputs == <<docs_results, blog_results>>
locals == <<parsed_data, chunks, processed_chunks, config_data>>
store == <<molrag, config>>

NoTable == [exists |-> FALSE, rows |-> <<>>, indices |-> {}]
NoVersion == 0

\* statements of ingest.py whose exception is not caught
FatalOps == {"create_table", "open_config", "add_version", "table_add",
             "create_fts_index", "create_index"}

RunningPcs == {"parse", "chunk", "create_table", "open_config", "delete_version",
               "add_version", "prepare", "table_add", "create_fts_index",
               "create_index", "verify"}

EndedPcs == {"done", "failed", "crashed"}

\* the names an index of the table can have
IndexNames == {"text_idx", "vector_idx"}

\* the answers of table.list_indices(): None, or a list of indices
NoneListing == [none |-> TRUE, names |-> {}]
Listings == {NoneListing} \cup {[none |-> FALSE, names |-> S] : S \in SUBSET IndexNames}

\* indices and any(index.name == index_name for index in indices)
Found(listing, name) == ~listing.none /\ listing.names # {} /\ name \in listing.names

\* the rows of a table with the given key
RowsOf(rows, key) == SelectSeq(rows, LAMBDA r : r.key = key)

Init ==
    /\ pc = "crawl_docs"
    /\ \E n \in 0..MaxRecords, m \in 0..MaxRecords, k \in 0..MaxRecords :
          /\ n + m + k <= MaxRecords
          /\ docs_results \in {q \in SeqsUpTo(DocsResults, n) : Len(q) = n}
          /\ blog_results \in {q \in SeqsUpTo(BlogResults, m) : Len(q) = m}
          /\ \E desci \in {q \in SeqsUpTo(DesciItems, k) : Len(q) = k} :
                files = <<<<>>, <<>>, desci>>
    /\ run = 0
    /\ today = 1
    /\ parsed_data = <<>>
    /\ chunks = <<>>
    /\ processed_chunks = <<>>
    /\ config_data = <<>>
    /\ molrag = NoTable
    /\ config = NoTable
    /\ failed_at = "none"
    /\ at_start = [rows |-> <<>>, version |-> <<>>]
    /\ knowledge_version_value = NoVersion
    /\ wpc = "idle"
    /\ index_name = "text_idx"
    /\ listed = NoneListing
    /\ indices = NoneListing
    /\ polls = 0

\* crawl_docs.py main: export the crawled pages to data/molecule_docs.json
CrawlDocs ==
    /\ pc = "crawl_docs"
    /\ files' = [files EXCEPT ![1] = SortByTitle(DocsPages(docs_results, {}))]
    /\ pc' = "crawl_blog"
    /\ UNCHANGED <<waiting, inputs, at_start, run, today, locals, store, failed_at, knowledge_version_value>>

\* crawl_blog.py main: export the crawled pages to data/molecule_blog.json
CrawlBlog ==
    /\ pc = "crawl_blog"
    /\ files' = [files EXCEPT ![2] = BlogPages(blog_results, {})]
    /\ pc' = "start"
    /\ UNCHANGED <<waiting, inputs, at_start, run, today, locals, store, failed_at, knowledge_version_value>>

\* python ingest.py is started; the day may have changed since the last run
StartRun ==
    /\ pc \in EndedPcs \cup {"start"}
    /\ run < MaxRuns
    /\ run' = run + 1
    /\ today' \in {d \in {today, today + 1} : d <= MaxDay}
    /\ pc' = "parse"
    /\ failed_at' = "none"
    /\ knowledge_version_value' = NoVersion
    /\ at_start' = [rows |-> molrag.rows,
                    version |-> RowsOf(config.rows, "knowledge_version")]
    /\ UNCHANGED <<waiting, inputs, files, locals, store>>

\* ingest.py 60-78: read the files into parsed_data
Parse ==
    /\ pc = "parse"
    /\ parsed_data' = ParseFiles(files)
    /\ pc' = "chunk"
    /\ UNCHANGED <<waiting, inputs, at_start, files, run, today, chunks, processed_chunks, config_data,
                   store, failed_at, knowledge_version_value>>

\* ingest.py 86-97: chunk every row
Chunk ==
    /\ pc = "chunk"
    /\ Splittable(parsed_data)
    /\ chunks' = ChunkRows(parsed_data)
    /\ pc' = "create_table"
    /\ UNCHANGED <<waiting, inputs, at_start, files, run, today, parsed_data, processed_chunks, config_data,
                   store, failed_at, knowledge_version_value>>

\* ingest.py 89: split_text raises AttributeError on a content that is None
ChunkRaise ==
    /\ pc = "chunk"
    /\ ~Splittable(parsed_data)
    /\ pc' = "failed"
    /\ failed_at' = "chunk"
    /\ parsed_data' = <<>>
    /\ UNCHANGED <<waiting, inputs, at_start, files, run, today, chunks, processed_chunks, config_data,
                   store, knowledge_version_value>>

\* CreateTable opening the existing table instead of overwriting it
CreateTableKeep ==
    /\ pc = "create_table"
    /\ molrag' = [molrag EXCEPT !.exists = TRUE]
    /\ pc' = "open_config"
    /\ UNCHANGED <<waiting, inputs, at_start, files, run, today, locals, config, failed_at,
                   knowledge_version_value>>

\* ingest.py 150: db.create_table("molrag", schema=Chunks, mode="overwrite")
CreateTable ==
    /\ pc = "create_table"
    /\ molrag' = [exists |-> TRUE, rows |-> <<>>, indices |-> {}]
    /\ pc' = "open_config"
    /\ UNCHANGED <<waiting, inputs, at_start, files, run, today, locals, config, failed_at,
                   knowledge_version_value>>

\* ingest.py 156-165: open the config table, or create it; build config_data
OpenConfig ==
    /\ pc = "open_config"
    /\ config' = IF config.exists THEN config
                 ELSE [exists |-> TRUE, rows |-> <<>>, indices |-> {}]
    /\ config_data' = <<[key |-> "knowledge_version", value |-> today]>>
    /\ pc' = "delete_version"
    /\ UNCHANGED <<waiting, inputs, at_start, files, run, today, parsed_data, chunks, processed_chunks,
                   molrag, failed_at, knowledge_version_value>>

\* ingest.py 168-169: config_table.delete("key = 'knowledge_version'")
DeleteVersion ==
    /\ pc = "delete_version"
    /\ config' = [config EXCEPT !.rows = SelectSeq(config.rows,
                                            LAMBDA r : r.key # "knowledge_version")]
    /\ pc' = "add_version"
    /\ UNCHANGED <<waiting, inputs, at_start, files, run, today, locals, molrag, failed_at,
                   knowledge_version_value>>

\* ingest.py 170-171: the delete raises and the exception is swallowed
DeleteVersionRaise ==
    /\ pc = "delete_version"
    /\ pc' = "add_version"
    /\ UNCHANGED <<waiting, inputs, at_start, files, run, today, locals, store, failed_at,
                   knowledge_version_value>>

\* ingest.py 174: config_table.add(config_data)
AddVersion ==
    /\ pc = "add_version"
    /\ config' = [config EXCEPT !.rows = config.rows \o config_data]
    /\ pc' = "prepare"
    /\ UNCHANGED <<waiting, inputs, at_start, files, run, today, locals, molrag, failed_at,
                   knowledge_version_value>>

\* ingest.py 185-207: build processed_chunks
Prepare ==
    /\ pc = "prepare"
    /\ processed_chunks' = ProcessChunks(chunks)
    /\ pc' = "table_add"
    /\ UNCHANGED <<waiting, inputs, at_start, files, run, today, parsed_data, chunks, config_data, store,
                   failed_at, knowledge_version_value>>

\* ingest.py 213: table.add(processed_chunks)
TableAdd ==
    /\ pc = "table_add"
    /\ molrag' = [molrag EXCEPT !.rows = molrag.rows \o processed_chunks]
    /\ pc' = "create_fts_index"
    /\ UNCHANGED <<waiting, inputs, at_start, files, run, today, locals, config, failed_at,
                   knowledge_version_value>>

\* ingest.py 215: table.create_fts_index("text", replace=True)
CreateFtsIndex ==
    /\ pc = "create_fts_index"
    /\ molrag' = [molrag EXCEPT !.indices = molrag.indices \cup {"text_idx"}]
    /\ pc' = "create_index"
    /\ UNCHANGED <<waiting, inputs, at_start, files, run, today, locals, config, failed_at,
                   knowledge_version_value>>

\* ingest.py 223: table.create_index(metric="cosine")
CreateIndex ==
    /\ pc = "create_index"
    /\ molrag' = [molrag EXCEPT !.indices = molrag.indices \cup {"vector_idx"}]
    /\ pc' = "verify"
    /\ UNCHANGED <<waiting, inputs, at_start, files, run, today, locals, config, failed_at,
                   knowledge_version_value>>

\* ingest.py 229-246: print the table, read the knowledge_version back; exit
Verify ==
    /\ pc = "verify"
    /\ knowledge_version_value' =
          LET result == RowsOf(config.rows, "knowledge_version")
          IN IF result # <<>> THEN result[1].value ELSE NoVersion
    /\ pc' = "done"
    /\ parsed_data' = <<>>
    /\ chunks' = <<>>
    /\ processed_chunks' = <<>>
    /\ config_data' = <<>>
    /\ UNCHANGED <<waiting, inputs, at_start, files, run, today, store, failed_at>>

\* a store call outside a try block raises: the script ends with a traceback
StoreRaise ==
    /\ pc \in FatalOps
    /\ pc' = "failed"
    /\ failed_at' = pc
    /\ parsed_data' = <<>>
    /\ chunks' = <<>>
    /\ processed_chunks' = <<>>
    /\ config_data' = <<>>
    /\ UNCHANGED <<waiting, inputs, at_start, files, run, today, store, knowledge_version_value>>

\* the process is killed between two statements
Crash ==
    /\ pc \in RunningPcs
    /\ pc' = "crashed"
    /\ parsed_data' = <<>>
    /\ chunks' = <<>>
    /\ processed_chunks' = <<>>
    /\ config_data' = <<>>
    /\ UNCHANGED <<waiting, inputs, at_start, files, run, today, store, failed_at,
                   knowledge_version_value>>

Next ==
    \/ CrawlDocs
    \/ CrawlBlog
    \/ StartRun
    \/ Parse
    \/ Chunk
    \/ ChunkRaise
    \/ CreateTable
    \/ OpenConfig
    \/ DeleteVersion
    \/ DeleteVersionRaise
    \/ AddVersion
    \/ Prepare
    \/ TableAdd
    \/ CreateFtsIndex
    \/ CreateIndex
    \/ Verify
    \/ StoreRaise
    \/ Crash

Spec == Init /\ [][Next]_vars

----------------------------------------------------------------------------
(* wait_for_index(table, index_name), which ingest.py defines and does not call *)

\* a call of wait_for_index on a table whose index builds are under way
InitWait ==
    /\ pc = "wait_for_index"
    /\ docs_results = <<>>
    /\ blog_results = <<>>
    /\ files = <<<<>>, <<>>, <<>>>>
    /\ run = 0
    /\ today = 1
    /\ parsed_data = <<>>
    /\ chunks = <<>>
    /\ processed_chunks = <<>>
    /\ config_data = <<>>
    /\ molrag = [exists |-> TRUE, rows |-> <<>>, indices |-> {}]
    /\ config = NoTable
    /\ failed_at = "none"
    /\ at_start = [rows |-> <<>>, version |-> <<>>]
    /\ knowledge_version_value = NoVersion
    /\ wpc = "list"
    /\ index_name \in IndexNames
    /\ listed \in Listings
    /\ indices = NoneListing
    /\ polls = 0

\* MissGiveUp: Miss with a limit on the number of polls
MissGiveUp ==
    /\ wpc = "test"
    /\ ~Found(indices, index_name)
    /\ wpc' = IF polls >= 2 THEN "returned" ELSE "sleep"
    /\ UNCHANGED <<pipeline, index_name, listed, indices, polls>>

\* ingest.py 20: indices = table.list_indices()
ListIndices ==
    /\ wpc = "list"
    /\ indices' = listed
    /\ polls' = IF polls < MaxPolls THEN polls + 1 ELSE polls
    /\ wpc' = "test"
    /\ UNCHANGED <<pipeline, index_name, listed>>

\* ingest.py 22-23, 27: the index is in the answer: break, print, return
Break ==
    /\ wpc = "test"
    /\ Found(indices, index_name)
    /\ wpc' = "returned"
    /\ UNCHANGED <<pipeline, index_name, listed, indices, polls>>

\* ingest.py 22, 24: the index is not in the answer: print and go on
Miss ==
    /\ wpc = "test"
    /\ ~Found(indices, index_name)
    /\ wpc' = "sleep"
    /\ UNCHANGED <<pipeline, index_name, listed, indices, polls>>

\* ingest.py 25: time.sleep(POLL_INTERVAL), then the next iteration
Sleep ==
    /\ wpc = "sleep"
    /\ wpc' = "list"
    /\ UNCHANGED <<pipeline, index_name, listed, indices, polls>>

\* the store finishes or drops an index build, or stops answering with a list
ListingChanges ==
    /\ wpc \in {"list", "test", "sleep"}
    /\ listed' \in Listings \ {listed}
    /\ UNCHANGED <<pipeline, wpc, index_name, indices, polls>>

\* the statements of wait_for_index
WaitStep == ListIndices \/ Break \/ Miss \/ Sleep

NextWait ==
    \/ ListIndices
    \/ Break
    \/ Miss
    \/ Sleep
    \/ ListingChanges

\* the call keeps running: its next statement is executed eventually
SpecWait == InitWait /\ [][NextWait]_vars /\ WF_vars(WaitStep)

----------------------------------------------------------------------------
(* Properties *)

\* statements a run reaches only after config_table.add has returned
AfterAddVersion == {"prepare", "table_add", "create_fts_index", "create_index", "verify"}

\* statements a run reaches only after the chunking loop has ended
AfterChunk == {"create_table", "open_config", "delete_version", "add_version",
               "prepare", "table_add", "create_fts_index", "create_index", "verify"}

\* statements a run reaches only after table.add has returned
AfterTableAdd == {"create_fts_index", "create_index", "verify"}

VersionRows == RowsOf(config.rows, "knowledge_version")

\* C1: whenever the ledger holds the knowledge_version entry the current run
\* inserted, the chunk table already holds all of that run's rows.
C1_VersionOnlyAfterRows ==
    pc \in AfterAddVersion => molrag.rows = ProcessChunks(chunks)

\* C2: a run that failed at a chunk-table operation (create_table, table.add,
\* an index build) leaves the knowledge_version rows as the run found them.
C2_FailedRunLeavesLedger ==
    (pc = "failed" /\ failed_at \in {"create_table", "table_add", "create_fts_index",
                                     "create_index"})
        => VersionRows = at_start.version

\* the rows the run writes from the data files
RunRows == ProcessChunks(ChunkRows(ParseFiles(files)))

\* C3: while a run re-ingests over a populated table, a reader sees the
\* complete previous row set or the complete new row set, nothing else.
C3_NoIntermediateTable ==
    (pc \in AfterChunk /\ at_start.rows # <<>>)
        => (molrag.rows = at_start.rows \/ molrag.rows = RunRows)

\* C4: after a completed run the ledger holds at most one knowledge_version
\* row, and its value is the date of that run, also when the delete failed.
C4_OneVersionRow ==
    pc = "done" => /\ Len(VersionRows) <= 1
                   /\ \A k \in 1..Len(VersionRows) : VersionRows[k].value = today

\* C5: once a run is past its delete step and has not inserted yet (the state
\* a crash at that point leaves behind), the ledger holds no knowledge_version
\* row.
C5_NoStaleVersion ==
    pc = "add_version" => VersionRows = <<>>

\* the records left when every record whose markdown was seen before is dropped
RECURSIVE FirstSeen(_, _)
FirstSeen(rows, seen) ==
    IF rows = <<>> THEN <<>>
    ELSE IF Head(rows).content \in seen THEN FirstSeen(Tail(rows), seen)
    ELSE <<Head(rows)>> \o FirstSeen(Tail(rows), seen \cup {Head(rows).content})

\* C6: of the records of a run with identical markdown only the first-seen
\* one contributes chunks, with its own url and title.
C6_ContentDedup ==
    pc \in AfterChunk => chunks = ChunkRows(FirstSeen(parsed_data, {}))

\* C7: a record whose markdown is absent or not text never aborts the run.
C7_MalformedNotFatal ==
    ~(pc = "failed" /\ failed_at = "chunk")

\* C8: every stored row carries the zero-based position of its chunk within
\* its page.
C8_PositionStored ==
    \A k \in 1..Len(molrag.rows) : "position" \in DOMAIN molrag.rows[k].metadata

\* C9: every heading level that is active for a chunk is stored, with the
\* heading text, in the metadata of the chunk's row; a level that is not
\* active is stored as null.
C9_HeadingPathStored ==
    pc \in AfterTableAdd =>
        \A k \in 1..Len(chunks) : \A n \in DOMAIN headers_to_split_on :
            LET name == HeaderName(headers_to_split_on[n])
                stored == molrag.rows[k].metadata
            IN IF name \in DOMAIN chunks[k].metadata
               THEN name \in DOMAIN stored /\ stored[name] = chunks[k].metadata[name]
               ELSE name \in DOMAIN stored => stored[name] = None

\* page_title, url and source of a chunk's or a row's metadata
Provenance(metadata) ==
    [page_title |-> metadata["page_title"], url |-> metadata["url"],
     source |-> metadata["source"]]

\* for every chunk the i-th file's item is split into, the item's title and
\* url and the label configured for the file
ItemProvenance(item, i) ==
    LET n == Len(SplitDocuments(MarkdownSplit(Get(item, "markdown", Text(<<>>)).lines)))
    IN [k \in 1..n |-> [page_title |-> Get(item, "title", ""),
                        url |-> Get(item, "url", "N/A"),
                        source |-> FileSource(i)]]

RECURSIVE FileProvenance(_, _)
FileProvenance(data, i) ==
    IF data = <<>> THEN <<>>
    ELSE ItemProvenance(Head(data), i) \o FileProvenance(Tail(data), i)

ExpectedProvenance ==
    FileProvenance(files[1], 1) \o FileProvenance(files[2], 2) \o FileProvenance(files[3], 3)

\* C10: every chunk carries the title and url of the record it was split
\* from and the label configured for that record's file (checked when the
\* chunking loop has ended), and the stored row carries the same three values
\* (checked against the records when table.add has returned, and against the
\* chunks as long as the run lasts).
C10_ProvenanceKept ==
    /\ pc = "create_table" =>
          [k \in 1..Len(chunks) |-> Provenance(chunks[k].metadata)] = ExpectedProvenance
    /\ pc = "create_fts_index" =>
          [k \in 1..Len(molrag.rows) |-> Provenance(molrag.rows[k].metadata)]
              = ExpectedProvenance
    /\ pc \in AfterTableAdd =>
          [k \in 1..Len(molrag.rows) |-> Provenance(molrag.rows[k].metadata)]
              = [k \in 1..Len(chunks) |-> Provenance(chunks[k].metadata)]

\* rows of a docs page and of a blog page with different titles and urls are
\* stored; the docs record's own source field is not the file's label
C10_Witness ==
    /\ pc = "verify"
    /\ \E i, j \in 1..Len(molrag.rows) :
          /\ molrag.rows[i].metadata.source = "Molecule Documentation"
          /\ molrag.rows[j].metadata.source = "Molecule Blog"
          /\ molrag.rows[i].metadata.page_title # molrag.rows[j].metadata.page_title
          /\ molrag.rows[i].metadata.url # molrag.rows[j].metadata.url
    /\ \E k \in 1..Len(files[1]) : files[1][k].source # FileSource(1)

\* (url, source, position in page, text) of every row; the position of a row
\* is the number of rows of the same url and source stored before it
RowIdentities(rows) ==
    {[url |-> rows[k].metadata.url,
      source |-> rows[k].metadata.source,
      position |-> Cardinality({j \in 1..(k - 1) :
                                   /\ rows[j].metadata.url = rows[k].metadata.url
                                   /\ rows[j].metadata.source = rows[k].metadata.source}),
      text |-> rows[k].text] : k \in 1..Len(rows)}

\* C11: a completed run leaves in the chunk table the rows of the data files
\* and nothing else; so a run that completes over the table a first run of
\* the same files has written leaves the same row count and the same set of
\* (url, source, position, text) rows as it found.
C11_RerunIdempotent ==
    pc = "done" =>
        /\ molrag.rows = RunRows
        /\ (run >= 2 /\ at_start.rows = RunRows) =>
              /\ Len(molrag.rows) = Len(at_start.rows)
              /\ RowIdentities(molrag.rows) = RowIdentities(at_start.rows)

\* a second run has completed over the rows a first run wrote: two pages,
\* more than one chunk each
C11_Witness ==
    /\ pc = "done"
    /\ run = 2
    /\ at_start.rows = RunRows
    /\ Len(molrag.rows) >= 4
    /\ Cardinality(RowIdentities(molrag.rows)) = Len(molrag.rows)

\* C12: wait_for_index returns only when its last poll's answer held an index
\* named index_name; after every miss (an empty or None answer too), however
\* many polls were made, it polls again; if the index comes to be listed and
\* stays listed it returns; if the index is never listed it never returns.
C12_WaitForIndex ==
    /\ [](wpc = "returned" => Found(indices, index_name))
    /\ [](wpc = "sleep" => <>(wpc = "list"))
    /\ (<>[]Found(listed, index_name) => <>(wpc = "returned"))
    /\ ([]~Found(listed, index_name) => [](wpc # "returned"))

\* the call has returned after at least one miss
C12_Witness ==
    /\ wpc = "returned"
    /\ polls >= 2
    /\ Found(indices, index_name)

====
